---------------------------- MODULE Spec2Model ----------------------------
(***************************************************************************)
(* Key-material layer of milagro_bls (src/src/keys.rs): SecretKey,         *)
(* PublicKey and Keypair, their byte codecs and SecretKey's Drop.          *)
(*                                                                         *)
(* Scale.  TLC's integers are 32 bits wide, so the 381-bit base field and  *)
(* the 255-bit group order of BLS12-381 are replaced by a curve of the     *)
(* same shape, y^2 = x^3 + 4, over F_19: 21 points, cofactor 3, prime      *)
(* subgroup order 7.  A byte is a digit of ByteBase values; a secret key  *)
(* is SECRET_KEY_BYTES digits and a field element MODBYTES digits.  The    *)
(* relations of the real parameters that the code relies on are kept:      *)
(*    SECRET_KEY_BYTES < MODBYTES            (32 < 48: left padding)       *)
(*    CURVE_ORDER < ByteBase^SECRET_KEY_BYTES (r < 2^256: some 32-byte     *)
(*                                            values are out of range)     *)
(*    MODULUS < ByteBase^MODBYTES, with room (p < 2^381 < 2^384: some      *)
(*                                            48-byte values are >= p)     *)
(*    cofactor > 1                           (on-curve points outside the  *)
(*                                            prime-order subgroup exist)  *)
(***************************************************************************)
EXTENDS Integers, Sequences, FiniteSets, TLC

\* Number of values of one byte (u8: 256 in the program).
ByteBase == 4
\* keys.rs:15 (32 in the program).
SECRET_KEY_BYTES == 2
\* amcl_utils::MODBYTES, imported at keys.rs:6 (48 in the program).
MODBYTES == 3
\* Number of SecretKey / Keypair objects one scope holds.
MaxKeys == 2

\* The literal 96 of keys.rs:132 and keys.rs:146: two field elements.
UNCOMPRESSED_BYTES == 2 * MODBYTES

\* rom::MODULUS of the curve: the prime p of the base field.
MODULUS == 19
\* rom::CURVE_B: the curve is y^2 = x^3 + CURVE_B.
CURVE_B == 4
\* amcl_utils::CURVE_ORDER, imported at keys.rs:6: the prime group order r.
CURVE_ORDER == 7
\* Affine coordinates of amcl_utils::GENERATORG1, a point of order r.
GENERATOR_X == 1
GENERATOR_Y == 9

---------------------------------------------------------------------------
(* Bytes and Big.                                                          *)

RECURSIVE Pow(_, _)
Pow(b, e) == IF e = 0 THEN 1 ELSE b * Pow(b, e - 1)

Byte == 0 .. (ByteBase - 1)

\* vec![v; n]
Rep(v, n) == [i \in 1 .. n |-> v]

\* All byte strings of length n.
BytesOfLen(n) == [1 .. n -> Byte]

RECURSIVE frombytes_loop(_, _, _)
frombytes_loop(b, i, m) ==
    IF i > MODBYTES THEN m
    ELSE frombytes_loop(b, i + 1, m * ByteBase + b[i])

\* Big::frombytes: m = 0; for i in 0..MODBYTES { m.fshl(8); m.w[0] += b[i] }.
\* A Big holds more bits than MODBYTES bytes, so nothing is lost.
frombytes(b) == frombytes_loop(b, 1, 0)

RECURSIVE tobytes_loop(_, _, _)
tobytes_loop(c, i, b) ==
    IF i < 1 THEN b
    ELSE tobytes_loop(c \div ByteBase, i - 1, [b EXCEPT ![i] = c % ByteBase])

\* Big::tobytes: for i in (0..MODBYTES).rev() { b[i] = c.w[0] & 0xff; c.fshr(8) }.
tobytes(x) == tobytes_loop(x, MODBYTES, Rep(0, MODBYTES))

RECURSIVE nbits(_)
\* Big::nbits: the number of significant bits.
nbits(x) == IF x = 0 THEN 0 ELSE 1 + nbits(x \div 2)

\* Big::randomnum(q, rng): 2 * nbits(q) random bits, shifted into a DBig d,
\* then d.dmod(q).  d stands for the bits the rng delivered.
randomnum(q, d) == d % q

\* The values d the loop of randomnum can assemble for modulus q.
RandomBits(q) == 0 .. (Pow(2, 2 * nbits(q)) - 1)

---------------------------------------------------------------------------
(* Results of the decoders.                                                *)

Ok(v) == [ok |-> TRUE, err |-> "None", val |-> v]
Err(e) == [ok |-> FALSE, err |-> e, val |-> 0]

---------------------------------------------------------------------------
(* SecretKey: struct SecretKey { x: Big }.  A key is its scalar x.         *)

\* SecretKey::random drawing nbits(r) bits and skipping the reduction modulo r.
SecretKey_random_unreduced(d) == d % Pow(2, nbits(CURVE_ORDER))

\* SecretKey::random: the scalar drawn from the rng's bits d.
SecretKey_random(d) == randomnum(CURVE_ORDER, d)

\* SecretKey::from_bytes with the range check written `>` for `>=`.
SecretKey_from_bytes_gt(input) ==
    IF Len(input) # SECRET_KEY_BYTES THEN Err("IncorrectSize")
    ELSE IF Len(input) > MODBYTES THEN Err("Panic")
    ELSE LET bytes == Rep(0, MODBYTES - Len(input)) \o input
             sk == frombytes(bytes)
         IN  IF sk > CURVE_ORDER THEN Err("InvalidSecretKeyRange")
             ELSE Ok(sk)

\* SecretKey::from_bytes
SecretKey_from_bytes(input) ==
    IF Len(input) # SECRET_KEY_BYTES THEN Err("IncorrectSize")
    \* MODBYTES - input.len() is a usize: it cannot go below zero.
    ELSE IF Len(input) > MODBYTES THEN Err("Panic")
    ELSE LET bytes == Rep(0, MODBYTES - Len(input)) \o input
             sk == frombytes(bytes)
         IN  IF sk >= CURVE_ORDER THEN Err("InvalidSecretKeyRange")
             ELSE Ok(sk)

\* SecretKey::as_bytes returning bytes[..SECRET_KEY_BYTES], the padded end.
SecretKey_as_bytes_head(x) ==
    LET bytes == tobytes(x)
    IN  SubSeq(bytes, 1, SECRET_KEY_BYTES)

\* SecretKey::as_bytes
SecretKey_as_bytes(x) ==
    LET bytes == tobytes(x)
    IN  SubSeq(bytes, MODBYTES - SECRET_KEY_BYTES + 1, MODBYTES)

\* A drop that leaves the storage as it is.
SecretKey_drop_none(w) == w

\* impl Drop for SecretKey: self.x.w.zeroize(); the storage after the call.
SecretKey_drop(w) == 0

---------------------------------------------------------------------------
(* The base field and the group G1 (amcl's FP and ECP, used through        *)
(* amcl_utils::GroupG1 and g1::G1Point).  A point is held in projective    *)
(* coordinates (x : y : z), the affine point being (x/z, y/z).             *)

\* FP::bcopy / FP::nres: a Big entering the field is reduced modulo p.
FP(big) == big % MODULUS

\* FP::inverse: 0 has inverse 0, as the exponentiation by p - 2 gives.
FP_inverse(a) ==
    IF a % MODULUS = 0 THEN 0
    ELSE CHOOSE b \in 1 .. (MODULUS - 1) : (a * b) % MODULUS = 1

\* ECP::rhs: x^3 + B.
ECP_rhs(x) == (x * x * x + CURVE_B) % MODULUS

\* ECP::new / ECP::inf: the identity, (0 : 1 : 0).
ECP_new == [x |-> 0, y |-> 1, z |-> 0]

\* ECP::is_infinity
ECP_is_infinity(P) == P.x = 0 /\ P.z = 0

\* ECP::new_bigs: the point (ix, iy) if it is on the curve, else the identity.
ECP_new_bigs(ix, iy) ==
    LET x == FP(ix)
        y == FP(iy)
    IN  IF (y * y) % MODULUS # ECP_rhs(x) THEN ECP_new
        ELSE [x |-> x, y |-> y, z |-> 1]

\* ECP::affine: the same point with z = 1.
ECP_affine(P) ==
    IF ECP_is_infinity(P) \/ P.z = 1 THEN P
    ELSE LET zi == FP_inverse(P.z)
         IN  [x |-> (P.x * zi) % MODULUS, y |-> (P.y * zi) % MODULUS, z |-> 1]

\* ECP::getx / ECP::gety: the affine coordinate as a Big.
ECP_getx(P) == ECP_affine(P).x
ECP_gety(P) == ECP_affine(P).y

\* ECP::dbl, on the affine form.
ECP_dbl(P) ==
    LET A == ECP_affine(P)
    IN  IF ECP_is_infinity(A) \/ A.y = 0 THEN ECP_new
        ELSE LET l == (3 * A.x * A.x * FP_inverse(2 * A.y)) % MODULUS
                 x3 == (l * l + 2 * (MODULUS - A.x)) % MODULUS
                 y3 == (l * (A.x + MODULUS - x3) + (MODULUS - A.y)) % MODULUS
             IN  [x |-> x3, y |-> y3, z |-> 1]

\* ECP::add, on the affine forms.
ECP_add(P, Q) ==
    LET A == ECP_affine(P)
        B == ECP_affine(Q)
    IN  IF ECP_is_infinity(A) THEN B
        ELSE IF ECP_is_infinity(B) THEN A
        ELSE IF A.x = B.x
             THEN IF A.y = B.y THEN ECP_dbl(A) ELSE ECP_new
        ELSE LET l == ((B.y + MODULUS - A.y) * FP_inverse(B.x + MODULUS - A.x)) % MODULUS
                 x3 == (l * l + (MODULUS - A.x) + (MODULUS - B.x)) % MODULUS
                 y3 == (l * (A.x + MODULUS - x3) + (MODULUS - A.y)) % MODULUS
             IN  [x |-> x3, y |-> y3, z |-> 1]

RECURSIVE ECP_mul(_, _)
\* ECP::mul: e * P, returned in affine form.
ECP_mul(P, e) ==
    IF e = 0 \/ ECP_is_infinity(P) THEN ECP_new
    ELSE LET H == ECP_dbl(ECP_mul(P, e \div 2))
         IN  IF e % 2 = 1 THEN ECP_add(H, P) ELSE H

\* amcl_utils::GENERATORG1
GENERATORG1 == [x |-> GENERATOR_X, y |-> GENERATOR_Y, z |-> 1]

\* G1Point::as_bytes: the compressed encoding, the affine x with the three
\* flag bits (compression, infinity, sign of y).
G1Point_as_bytes(P) ==
    IF ECP_is_infinity(P)
    THEN [c_flag |-> 1, b_flag |-> 1, a_flag |-> 0, x |-> Rep(0, MODBYTES)]
    ELSE [c_flag |-> 1, b_flag |-> 0,
          a_flag |-> IF ECP_gety(P) > (MODULUS - 1) \div 2 THEN 1 ELSE 0,
          x |-> tobytes(ECP_getx(P))]

\* PartialEq of PublicKey: equality of the points.
PublicKey_eq(P, Q) == G1Point_as_bytes(P) = G1Point_as_bytes(Q)

---------------------------------------------------------------------------
(* PublicKey: struct PublicKey { pub point: G1Point }.                     *)

\* PublicKey::from_secret_key
PublicKey_from_secret_key(x) == ECP_mul(GENERATORG1, x)

\* PublicKey::new_from_raw
PublicKey_new_from_raw(pt) == pt

\* PublicKey::as_bytes
PublicKey_as_bytes(P) == G1Point_as_bytes(P)

\* PublicKey::as_uncompressed_bytes without the early return for the identity.
PublicKey_as_uncompressed_bytes_noinf(P) ==
    tobytes(ECP_getx(P)) \o tobytes(ECP_gety(P))

\* PublicKey::as_uncompressed_bytes: the bytes returned.
PublicKey_as_uncompressed_bytes(P) ==
    IF ECP_is_infinity(P) THEN Rep(0, UNCOMPRESSED_BYTES)
    ELSE tobytes(ECP_getx(P)) \o tobytes(ECP_gety(P))

\* An in-place normalisation that divides x by z and forgets y.
PublicKey_as_uncompressed_bytes_self_partial(P, inplace) ==
    IF ECP_is_infinity(P) \/ ~inplace THEN P
    ELSE [x |-> ECP_affine(P).x, y |-> P.y, z |-> 1]

\* PublicKey::as_uncompressed_bytes takes &mut self because G1Point::getx and
\* gety do: *self after the call.  inplace says whether the getters
\* normalise the point they are called on or a copy of it.
PublicKey_as_uncompressed_bytes_self(P, inplace) ==
    IF ECP_is_infinity(P) \/ ~inplace THEN P ELSE ECP_affine(P)

\* The loop of keys.rs:150-156: nil stays true iff every byte is 0.
IsNil(bytes) == \A i \in 1 .. Len(bytes) : bytes[i] = 0

\* PublicKey::from_uncompressed_bytes without the is_infinity check.
PublicKey_from_uncompressed_bytes_unchecked(bytes) ==
    IF Len(bytes) # UNCOMPRESSED_BYTES THEN Err("IncorrectSize")
    ELSE IF IsNil(bytes) THEN Ok(PublicKey_new_from_raw(ECP_new))
    ELSE LET x_big == frombytes(SubSeq(bytes, 1, MODBYTES))
             y_big == frombytes(SubSeq(bytes, MODBYTES + 1, Len(bytes)))
             point == ECP_new_bigs(x_big, y_big)
         IN  Ok(PublicKey_new_from_raw(point))

\* PublicKey::from_uncompressed_bytes looking for the all-zero input before
\* it looks at the length.
PublicKey_from_uncompressed_bytes_nilfirst(bytes) ==
    IF IsNil(bytes) THEN Ok(PublicKey_new_from_raw(ECP_new))
    ELSE IF Len(bytes) # UNCOMPRESSED_BYTES THEN Err("IncorrectSize")
    ELSE LET x_big == frombytes(SubSeq(bytes, 1, MODBYTES))
             y_big == frombytes(SubSeq(bytes, MODBYTES + 1, Len(bytes)))
             point == ECP_new_bigs(x_big, y_big)
         IN  IF ECP_is_infinity(point) THEN Err("BadPoint")
             ELSE Ok(PublicKey_new_from_raw(point))

\* PublicKey::from_uncompressed_bytes
PublicKey_from_uncompressed_bytes(bytes) ==
    IF Len(bytes) # UNCOMPRESSED_BYTES THEN Err("IncorrectSize")
    ELSE IF IsNil(bytes) THEN Ok(PublicKey_new_from_raw(ECP_new))
    ELSE LET x_big == frombytes(SubSeq(bytes, 1, MODBYTES))
             y_big == frombytes(SubSeq(bytes, MODBYTES + 1, Len(bytes)))
             point == ECP_new_bigs(x_big, y_big)
         IN  IF ECP_is_infinity(point) THEN Err("BadPoint")
             ELSE Ok(PublicKey_new_from_raw(point))

---------------------------------------------------------------------------
(* State.                                                                  *)
(*   arg   what the caller supplies to the decoders and to new_from_raw    *)
(*   heap  the SecretKey and Keypair objects of the caller's scope and,    *)
(*         once an object is destroyed, what its storage still holds       *)
(*   pks   the PublicKey objects of the caller's scope                     *)
(*   ret   what the last operation returned                                *)

VARIABLES arg, heap, pks, ret

vars == <<arg, heap, pks, ret>>

Slots == 1 .. MaxKeys

NoBytes == <<>>

\* An object of heap:
\*   st   "unused", "live", or "released" once the object is destroyed
\*   w    the storage of SecretKey.x, x.w
\*   own  "sk" for a bare SecretKey; for the sk of a Keypair, "kp_random" if
\*        Keypair::random made the pair (or it is a clone of such a pair) and
\*        "kp_literal" once a pub field was written by the caller
\*   pk   the pk field of the Keypair
\*   src  "random" or "bytes": how the scalar was obtained (clones keep it)
\*   had  for a released object: its scalar was not zero when it was dropped
\* An object of pks:
\*   point  PublicKey.point, in projective coordinates
\*   org    "sk" (from_secret_key), "raw" (new_from_raw), "bytes" (decoded)
\*   from   the bytes a decoded key was decoded from
\*   of     for a key decoded from another key's encoding, that key; else 0

\* A slot no SecretKey has lived in yet.
UnusedSk ==
    [st |-> "unused", w |-> 0, src |-> "none", own |-> "none",
     pk |-> ECP_new, had |-> FALSE]

NoPk == [st |-> "none", point |-> ECP_new, org |-> "none", from |-> NoBytes, of |-> 0]

NoRet ==
    [op |-> "none", k |-> 0, err |-> "None", in |-> NoBytes, out |-> NoBytes,
     src |-> "none", of |-> 0, exit |-> "none"]

Arg(kind, bytes, pt) == [kind |-> kind, bytes |-> bytes, pt |-> pt]

Live(k) == heap[k].st = "live"

HasRoom == \E k \in Slots : ~Live(k)

\* The slot a new object is placed in.
NewSlot == CHOOSE k \in Slots : ~Live(k) /\ \A j \in Slots : j < k => Live(j)

\* The drop glue of a SecretKey, bare or the sk field of a Keypair: Drop::drop
\* runs, then the storage is released with what drop left in it.
Dropped(o) ==
    [st |-> "released", w |-> SecretKey_drop(o.w), src |-> "none", own |-> "none",
     pk |-> ECP_new, had |-> (o.w # 0)]

\* Leaving the scope, by its end, by return or by unwinding: every live object
\* of the scope is dropped.
DropAll(h) == [k \in Slots |-> IF h[k].st = "live" THEN Dropped(h[k]) ELSE h[k]]

---------------------------------------------------------------------------
(* Operations on SecretKey and Keypair objects.                            *)

Ret(op, res) == [NoRet EXCEPT !.op = op, !.err = res.err]

\* The keys SecretKey::random returns, over everything the rng can deliver.
SecretKeyDraws == {SecretKey_random(d) : d \in RandomBits(CURVE_ORDER)}

\* let sk = SecretKey::random(rng);
SkRandom ==
    /\ HasRoom
    /\ \E x \in SecretKeyDraws :
         heap' = [heap EXCEPT ![NewSlot] =
                    [st |-> "live", w |-> x, src |-> "random",
                     own |-> "sk", pk |-> ECP_new, had |-> FALSE]]
    /\ ret' = Ret("SecretKey::random", Ok(0))
    /\ UNCHANGED <<arg, pks>>

\* SecretKey::from_bytes(&arg.bytes), the caller matching on the result
\* ("handle"), returning the error with `?` ("early_return") or calling
\* unwrap() as keys.rs:205 does, which panics on an error ("unwind").
SkFromBytes ==
    /\ arg.kind = "bytes"
    /\ HasRoom
    /\ LET res == SecretKey_from_bytes(arg.bytes)
       IN  \E onErr \in {"handle", "early_return", "unwind"} :
             /\ res.ok => onErr = "handle"
             /\ heap' = IF res.ok
                        THEN [heap EXCEPT ![NewSlot] =
                                [st |-> "live", w |-> res.val, src |-> "bytes",
                                 own |-> "sk", pk |-> ECP_new, had |-> FALSE]]
                        ELSE IF onErr = "handle" THEN heap ELSE DropAll(heap)
             /\ ret' = [Ret("SecretKey::from_bytes", res)
                          EXCEPT !.in = arg.bytes,
                                 !.exit = IF onErr = "handle" THEN "none" ELSE onErr]
    /\ UNCHANGED <<arg, pks>>

\* sk.as_bytes() on a bare key or on the sk field of a Keypair (&self).
SkAsBytes ==
    /\ \E k \in Slots :
         /\ Live(k)
         /\ ret' = [Ret("SecretKey::as_bytes", Ok(0))
                      EXCEPT !.out = SecretKey_as_bytes(heap[k].w),
                             !.src = heap[k].src]
    /\ UNCHANGED <<arg, heap, pks>>

\* #[derive(Clone)] on SecretKey and on Keypair: a field-by-field copy.
Clone ==
    /\ HasRoom
    /\ \E k \in Slots :
         /\ Live(k)
         /\ heap' = [heap EXCEPT ![NewSlot] = heap[k]]
         /\ ret' = Ret("clone", Ok(0))
    /\ UNCHANGED <<arg, pks>>

\* Keypair::random deriving pk from a second draw instead of from sk.
Keypair_random_redraw(d) ==
    LET sk == SecretKey_random(d)
        pk == PublicKey_from_secret_key(SecretKey_random(d \div 2))
    IN  [sk |-> sk, pk |-> pk]

\* Keypair::random
Keypair_random(d) ==
    LET sk == SecretKey_random(d)
        pk == PublicKey_from_secret_key(sk)
    IN  [sk |-> sk, pk |-> pk]

\* The pairs Keypair::random returns, over everything the rng can deliver.
KeypairDraws == {Keypair_random(d) : d \in RandomBits(CURVE_ORDER)}

\* let kp = Keypair::random(rng);
KpRandom ==
    /\ HasRoom
    /\ \E kp \in KeypairDraws :
         heap' = [heap EXCEPT ![NewSlot] =
                    [st |-> "live", w |-> kp.sk, src |-> "random",
                     own |-> "kp_random", pk |-> kp.pk, had |-> FALSE]]
    /\ ret' = Ret("Keypair::random", Ok(0))
    /\ UNCHANGED <<arg, pks>>

\* Public keys a caller builds without the secret key: new_from_raw of the
\* identity (as keys.rs:236 does) and of the generator.
CallerPks == {PublicKey_new_from_raw(ECP_new), PublicKey_new_from_raw(GENERATORG1)}

\* Keypair { sk, pk }: both fields are pub (keys.rs:178-179), so a struct
\* literal moves a bare SecretKey and any PublicKey into a Keypair.
KpLiteral ==
    /\ \E k \in Slots, P \in CallerPks :
         /\ Live(k)
         /\ heap[k].own = "sk"
         /\ heap' = [heap EXCEPT ![k].own = "kp_literal", ![k].pk = P]
         /\ ret' = Ret("Keypair{sk,pk}", Ok(0))
    /\ UNCHANGED <<arg, pks>>

\* kp.pk = pk: assignment to the pub field of a mutable Keypair.
KpAssignPk ==
    /\ \E k \in Slots, P \in CallerPks :
         /\ Live(k)
         /\ heap[k].own \in {"kp_random", "kp_literal"}
         /\ heap' = [heap EXCEPT ![k].own = "kp_literal", ![k].pk = P]
         /\ ret' = Ret("kp.pk=", Ok(0))
    /\ UNCHANGED <<arg, pks>>

\* One object goes out of scope or is passed to drop().
Drop ==
    /\ \E k \in Slots :
         /\ Live(k)
         /\ heap' = [heap EXCEPT ![k] = Dropped(heap[k])]
         /\ ret' = Ret("drop", Ok(0))
    /\ UNCHANGED <<arg, pks>>

\* The scope ends, returns early or unwinds from a panic.
ScopeExit ==
    /\ \E k \in Slots : Live(k)
    /\ \E kind \in {"normal", "early_return", "unwind"} :
         ret' = [Ret("exit", Ok(0)) EXCEPT !.exit = kind]
    /\ heap' = DropAll(heap)
    /\ UNCHANGED <<arg, pks>>

---------------------------------------------------------------------------
(* Secret keys.  A behaviour either decodes one caller-supplied input      *)
(* (every 32-byte input, and inputs of the other lengths), beside at most  *)
(* one generated key, or generates keys and keypairs from the rng.         *)

\* The lengths from_bytes is tried on: 0 up to one more than MODBYTES.
SkLens == 0 .. (MODBYTES + 1)

SkInputs ==
    BytesOfLen(SECRET_KEY_BYTES) \cup
    {Rep(v, n) : v \in {0, 1, ByteBase - 1}, n \in SkLens \ {SECRET_KEY_BYTES}}

InitSK ==
    /\ arg \in {Arg("bytes", b, ECP_new) : b \in SkInputs} \cup {Arg("rng", NoBytes, ECP_new)}
    /\ heap = [k \in Slots |-> UnusedSk]
    /\ pks = [k \in Slots |-> NoPk]
    /\ ret = NoRet

\* In a behaviour that decodes an input, one key is generated at most, while
\* the scope holds no other: the key in scope when from_bytes fails.
NextSK ==
    \/ (arg.kind = "rng" \/ \A k \in Slots : ~Live(k)) /\ SkRandom
    \/ arg.kind = "rng" /\ KpRandom
    \/ SkFromBytes
    \/ SkAsBytes
    \/ Clone
    \/ Drop
    \/ ScopeExit

SpecSK == InitSK /\ [][NextSK]_vars

---------------------------------------------------------------------------
(* Keypairs: generated, cloned, assembled and changed through pub fields.  *)

InitKP ==
    /\ arg = Arg("rng", NoBytes, ECP_new)
    /\ heap = [k \in Slots |-> UnusedSk]
    /\ pks = [k \in Slots |-> NoPk]
    /\ ret = NoRet

NextKP ==
    \/ SkRandom
    \/ KpRandom
    \/ Clone
    \/ KpLiteral
    \/ KpAssignPk
    \/ Drop

SpecKP == InitKP /\ [][NextKP]_vars

---------------------------------------------------------------------------
(* Operations on PublicKey objects.                                        *)

PkLive(k) == pks[k].st = "live"

HasPkRoom == \E k \in Slots : ~PkLive(k)

NewPk == CHOOSE k \in Slots : ~PkLive(k) /\ \A j \in Slots : j < k => PkLive(j)

\* let pk = PublicKey::from_secret_key(&sk);
PkFromSecretKey ==
    /\ HasPkRoom
    /\ \E k \in Slots :
         /\ Live(k)
         /\ pks' = [pks EXCEPT ![NewPk] =
                      [st |-> "live", point |-> PublicKey_from_secret_key(heap[k].w),
                       org |-> "sk", from |-> NoBytes, of |-> 0]]
    /\ ret' = [Ret("PublicKey::from_secret_key", Ok(0)) EXCEPT !.k = NewPk]
    /\ UNCHANGED <<arg, heap>>

\* let pk = PublicKey::new_from_raw(&arg.pt);
PkNewFromRaw ==
    /\ arg.kind = "raw"
    /\ HasPkRoom
    /\ pks' = [pks EXCEPT ![NewPk] =
                 [st |-> "live", point |-> PublicKey_new_from_raw(arg.pt),
                  org |-> "raw", from |-> NoBytes, of |-> 0]]
    /\ ret' = [Ret("PublicKey::new_from_raw", Ok(0)) EXCEPT !.k = NewPk]
    /\ UNCHANGED <<arg, heap>>

\* PublicKey::from_uncompressed_bytes(&bytes); of is the key whose encoding
\* bytes is, 0 for bytes of the caller.
PkDecode(bytes, of) ==
    /\ HasPkRoom
    /\ LET res == PublicKey_from_uncompressed_bytes(bytes)
       IN  /\ pks' = IF res.ok
                     THEN [pks EXCEPT ![NewPk] =
                             [st |-> "live", point |-> res.val, org |-> "bytes",
                              from |-> bytes, of |-> of]]
                     ELSE pks
           /\ ret' = [Ret("PublicKey::from_uncompressed_bytes", res)
                        EXCEPT !.k = IF res.ok THEN NewPk ELSE 0,
                               !.in = bytes, !.of = of]
    /\ UNCHANGED <<arg, heap>>

\* Decoding the caller's input.
PkFromUncompressed == arg.kind = "bytes" /\ PkDecode(arg.bytes, 0)

\* Decoding what as_uncompressed_bytes has just returned (keys.rs:227-228).
PkFromEncoded ==
    /\ ret.op = "PublicKey::as_uncompressed_bytes"
    /\ PkDecode(ret.out, ret.k)

\* pk.as_uncompressed_bytes() (&mut self)
PkAsUncompressed ==
    /\ \E k \in Slots, inplace \in BOOLEAN :
         /\ PkLive(k)
         /\ pks' = [pks EXCEPT ![k].point =
                      PublicKey_as_uncompressed_bytes_self(pks[k].point, inplace)]
         /\ ret' = [Ret("PublicKey::as_uncompressed_bytes", Ok(0))
                      EXCEPT !.k = k,
                             !.out = PublicKey_as_uncompressed_bytes(pks[k].point)]
    /\ UNCHANGED <<arg, heap>>

\* pk.as_bytes() (&self)
PkAsBytes ==
    /\ \E k \in Slots :
         /\ PkLive(k)
         /\ ret' = [Ret("PublicKey::as_bytes", Ok(0))
                      EXCEPT !.k = k, !.out = PublicKey_as_bytes(pks[k].point).x]
    /\ UNCHANGED <<arg, heap, pks>>

---------------------------------------------------------------------------
(* Public keys.  A behaviour decodes one caller-supplied input (every      *)
(* 96-byte input, and inputs of the other lengths), wraps one raw point,   *)
(* or derives keys from a generated secret key.                            *)

ULens == 0 .. (UNCOMPRESSED_BYTES + 1)

UInputs ==
    BytesOfLen(UNCOMPRESSED_BYTES) \cup
    {Rep(v, n) : v \in {0, 1, ByteBase - 1}, n \in ULens \ {UNCOMPRESSED_BYTES}}

\* The points of the curve, in affine form.
CurvePoints ==
    {[x |-> x, y |-> y, z |-> 1] : x \in 0 .. (MODULUS - 1), y \in 0 .. (MODULUS - 1)}
      \cap {P \in [x : 0 .. (MODULUS - 1), y : 0 .. (MODULUS - 1), z : {1}] :
              (P.y * P.y) % MODULUS = ECP_rhs(P.x)}

\* The same point with every coordinate multiplied by l, as the sum of two
\* points is before it is normalised.
Scaled(P, l) ==
    [x |-> (P.x * l) % MODULUS, y |-> (P.y * l) % MODULUS, z |-> (P.z * l) % MODULUS]

\* The GroupG1 values handed to new_from_raw, which validates nothing: the
\* identity, the curve's points, normalised or not, and (1, 1), off the curve.
RawPoints ==
    {ECP_new} \cup CurvePoints \cup {Scaled(P, 2) : P \in CurvePoints}
      \cup {[x |-> 1, y |-> 1, z |-> 1]}

InitPK ==
    /\ arg \in {Arg("bytes", b, ECP_new) : b \in UInputs}
               \cup {Arg("raw", NoBytes, P) : P \in RawPoints}
               \cup {Arg("rng", NoBytes, ECP_new)}
    /\ heap = [k \in Slots |-> UnusedSk]
    /\ pks = [k \in Slots |-> NoPk]
    /\ ret = NoRet

NextPK ==
    \/ arg.kind = "rng" /\ (\A k \in Slots : ~Live(k)) /\ SkRandom
    \/ SkAsBytes
    \/ PkFromSecretKey
    \/ PkNewFromRaw
    \/ PkFromUncompressed
    \/ PkFromEncoded
    \/ PkAsUncompressed
    \/ PkAsBytes

SpecPK == InitPK /\ [][NextPK]_vars

---------------------------------------------------------------------------
(* Properties.                                                             *)

RECURSIVE BEValue(_)
\* The unsigned integer a byte string is the big-endian encoding of.
BEValue(b) ==
    IF Len(b) = 0 THEN 0
    ELSE BEValue(SubSeq(b, 1, Len(b) - 1)) * ByteBase + b[Len(b)]

\* C1: for every SECRET_KEY_BYTES-byte input whose big-endian value is below
\* the group order, from_bytes succeeds, and as_bytes of the key it returned
\* (or of a clone of it) gives back exactly the input.
C1_SecretKeyRoundTrip ==
    /\ (ret.op = "SecretKey::from_bytes" /\ Len(ret.in) = SECRET_KEY_BYTES
          /\ BEValue(ret.in) < CURVE_ORDER)
         => ret.err = "None"
    /\ (ret.op = "SecretKey::as_bytes" /\ ret.src = "bytes")
         => (Len(ret.out) = SECRET_KEY_BYTES /\ ret.out = arg.bytes)

\* as_bytes has returned the bytes of a decoded key whose first byte is not 0.
C1_Witness ==
    /\ ret.op = "SecretKey::as_bytes"
    /\ ret.src = "bytes"
    /\ ret.out = arg.bytes
    /\ ret.out[1] # 0

\* C2: from_bytes returns IncorrectSize exactly when the length is not
\* SECRET_KEY_BYTES, InvalidSecretKeyRange exactly when the length is right and
\* the big-endian value is at least the group order, a key otherwise; it never
\* panics.
C2_FromBytesClassifies ==
    ret.op = "SecretKey::from_bytes" =>
      /\ ret.err \in {"None", "IncorrectSize", "InvalidSecretKeyRange"}
      /\ ret.err = "IncorrectSize" <=> Len(ret.in) # SECRET_KEY_BYTES
      /\ ret.err = "InvalidSecretKeyRange" <=>
           (Len(ret.in) = SECRET_KEY_BYTES /\ BEValue(ret.in) >= CURVE_ORDER)

\* from_bytes has rejected the encoding of the group order itself.
C2_Witness ==
    /\ ret.op = "SecretKey::from_bytes"
    /\ Len(ret.in) = SECRET_KEY_BYTES
    /\ BEValue(ret.in) = CURVE_ORDER
    /\ ret.err = "InvalidSecretKeyRange"

\* pk = generator * sk.
Consistent(o) == PublicKey_eq(o.pk, ECP_mul(GENERATORG1, o.w))

IsKeypair(o) == o.st = "live" /\ o.own \in {"kp_random", "kp_literal"}

\* C3, as claimed: every Keypair obtainable through the public API satisfies
\* pk = generator * sk.
C3_EveryKeypairConsistent ==
    \A k \in Slots : IsKeypair(heap[k]) => Consistent(heap[k])

\* C3, amended: every Keypair returned by Keypair::random, and every clone of
\* one, satisfies pk = generator * sk until one of its pub fields is assigned.
C3_RandomKeypairConsistent ==
    \A k \in Slots :
      (heap[k].st = "live" /\ heap[k].own = "kp_random") => Consistent(heap[k])

\* A generated Keypair and its clone are in scope.
C3_Witness ==
    /\ ret.op = "clone"
    /\ \E j, k \in Slots :
         /\ j # k
         /\ heap[j] = heap[k]
         /\ heap[k].st = "live"
         /\ heap[k].own = "kp_random"
         /\ heap[k].w > 1

\* C4: the storage of every destroyed SecretKey, bare, cloned or owned by a
\* Keypair, holds zeros when it is released, however the scope was left.
C4_ReleasedStorageZeroed ==
    \A k \in Slots : heap[k].st = "released" => heap[k].w = 0

\* from_bytes has failed, the caller's unwrap() has panicked, and the
\* unwinding has released a key that held a non-zero scalar.
C4_Witness ==
    /\ ret.op = "SecretKey::from_bytes"
    /\ ret.err = "InvalidSecretKeyRange"
    /\ ret.exit = "unwind"
    /\ \E k \in Slots : heap[k].st = "released" /\ heap[k].had /\ heap[k].w = 0

\* C5: every existing SecretKey, generated, decoded, owned by a generated
\* Keypair or cloned, holds a scalar x with 0 <= x < r.
C5_ScalarInRange ==
    \A k \in Slots : Live(k) => (0 <= heap[k].w /\ heap[k].w < CURVE_ORDER)

\* A decoded key and its clone hold r - 1.
C5_Witness ==
    /\ ret.op = "clone"
    /\ \E j, k \in Slots :
         /\ j # k
         /\ Live(j) /\ heap[j].src = "bytes" /\ heap[j].w = CURVE_ORDER - 1
         /\ Live(k) /\ heap[k].src = "bytes" /\ heap[k].w = CURVE_ORDER - 1

\* The two 48-byte integers of a 96-byte input.
XOf(b) == BEValue(SubSeq(b, 1, MODBYTES))
YOf(b) == BEValue(SubSeq(b, MODBYTES + 1, Len(b)))

\* Y^2 = X^3 + B in the base field.
SatisfiesCurve(X, Y) == (Y * Y) % MODULUS = (X * X * X + CURVE_B) % MODULUS

\* A key's point, as its affine coordinates, is a point of the curve.
OnCurve(P) == ~ECP_is_infinity(P) /\ SatisfiesCurve(ECP_getx(P), ECP_gety(P))

\* A key derived from a secret key, or the identity wrapped by new_from_raw.
Derived(k) ==
    /\ k \in Slots
    /\ PkLive(k)
    /\ \/ pks[k].org = "sk"
       \/ pks[k].org = "raw" /\ arg.pt = ECP_new

\* C6: a key derived from a secret key, and the identity, encode to 96 bytes
\* (the identity to 96 zero bytes); decoding those bytes succeeds with an equal
\* key (96 zero bytes giving a key at infinity), and encoding that key gives
\* the same 96 bytes again.
C6_UncompressedRoundTrip ==
    /\ (ret.op = "PublicKey::as_uncompressed_bytes" /\ Derived(ret.k)) =>
         /\ Len(ret.out) = UNCOMPRESSED_BYTES
         /\ ECP_is_infinity(pks[ret.k].point) => ret.out = Rep(0, UNCOMPRESSED_BYTES)
    /\ (ret.op = "PublicKey::from_uncompressed_bytes" /\ Derived(ret.of)) =>
         /\ ret.err = "None"
         /\ PublicKey_eq(pks[ret.k].point, pks[ret.of].point)
    /\ (ret.op = "PublicKey::from_uncompressed_bytes"
          /\ ret.in = Rep(0, UNCOMPRESSED_BYTES)) =>
         /\ ret.err = "None"
         /\ ECP_is_infinity(pks[ret.k].point)
    /\ (ret.op = "PublicKey::as_uncompressed_bytes" /\ Derived(pks[ret.k].of)) =>
         ret.out = pks[ret.k].from

\* A key derived from a non-zero secret key has been encoded and decoded, and
\* the decoded key has been encoded to the same bytes.
C6_Witness ==
    /\ ret.op = "PublicKey::as_uncompressed_bytes"
    /\ Derived(pks[ret.k].of)
    /\ pks[pks[ret.k].of].org = "sk"
    /\ ~ECP_is_infinity(pks[ret.k].point)
    /\ ret.out = pks[ret.k].from

\* C7: a 96-byte input that is not all zero is rejected with BadPoint whenever
\* its (X, Y) does not satisfy the curve equation; a key that is returned lies
\* on the curve and is not the identity.
C7_BadPointRejected ==
    (ret.op = "PublicKey::from_uncompressed_bytes"
       /\ Len(ret.in) = UNCOMPRESSED_BYTES /\ ~IsNil(ret.in)) =>
      /\ ret.err \in {"None", "BadPoint"}
      /\ ~SatisfiesCurve(XOf(ret.in), YOf(ret.in)) => ret.err = "BadPoint"
      /\ ret.err = "None" => OnCurve(pks[ret.k].point)

\* The input (1, 1) has been rejected with BadPoint.
C7_Witness ==
    /\ ret.op = "PublicKey::from_uncompressed_bytes"
    /\ Len(ret.in) = UNCOMPRESSED_BYTES
    /\ XOf(ret.in) = 1
    /\ YOf(ret.in) = 1
    /\ ret.err = "BadPoint"

\* C8: an input whose length is not 96 is rejected with IncorrectSize, all
\* zero or not, and no key is made of it.
C8_IncorrectSizeFirst ==
    (ret.op = "PublicKey::from_uncompressed_bytes"
       /\ Len(ret.in) # UNCOMPRESSED_BYTES) =>
      /\ ret.err = "IncorrectSize"
      /\ ret.k = 0
      /\ \A k \in Slots : ~PkLive(k)

\* 97 zero bytes have been rejected with IncorrectSize.
C8_Witness ==
    /\ ret.op = "PublicKey::from_uncompressed_bytes"
    /\ ret.in = Rep(0, UNCOMPRESSED_BYTES + 1)
    /\ ret.err = "IncorrectSize"

\* C9: for every 96-byte input of the caller that from_uncompressed_bytes
\* accepts, as_uncompressed_bytes of the decoded key returns that input.
C9_DecodeEncodeIsIdentity ==
    (ret.op = "PublicKey::as_uncompressed_bytes"
       /\ pks[ret.k].org = "bytes" /\ pks[ret.k].of = 0) =>
      ret.out = pks[ret.k].from

\* C10: no operation changes an existing key: a PublicKey stays equal to what
\* it was, with the same compressed and uncompressed bytes, across every step,
\* as_uncompressed_bytes (&mut self) included, and a SecretKey keeps its
\* scalar across as_bytes and from_secret_key.
C10_KeysImmutable ==
    [][/\ \A k \in Slots : PkLive(k) =>
            /\ pks'[k].st = "live"
            /\ PublicKey_eq(pks'[k].point, pks[k].point)
            /\ PublicKey_as_bytes(pks'[k].point) = PublicKey_as_bytes(pks[k].point)
            /\ PublicKey_as_uncompressed_bytes(pks'[k].point)
                 = PublicKey_as_uncompressed_bytes(pks[k].point)
       /\ \A k \in Slots : Live(k) => heap'[k] = heap[k]]_vars

\* as_uncompressed_bytes has been called on a key wrapping a point that was
\* not normalised, and has normalised it in place.
C10_Witness ==
    /\ ret.op = "PublicKey::as_uncompressed_bytes"
    /\ pks[ret.k].org = "raw"
    /\ arg.pt.z \notin {0, 1}
    /\ pks[ret.k].point.z = 1

===========================================================================
